---- MODULE Spec2Model ----
(***************************************************************************)
(* Performance helpers of NanChat: lazyWithRetry, debounce, throttle and   *)
(* memoize (src/utils/performance.ts), the deep-comparison hooks           *)
(* (src/hooks/use-optimized-memo.ts) and the bundler's manualChunks        *)
(* (vite.config.ts).  The helpers share no state; each has a specification *)
(* of its own over the host's clock and timer table.                       *)
(***************************************************************************)
EXTENDS Integers, Sequences, FiniteSets, TLC

\* ------------------------------------------------------------------ bounds
MaxTime == 6          \* the clock stops advancing here
MaxLate == 1          \* how late the host may run a due timer callback
MaxRetries == 2       \* largest `retries` passed to lazyWithRetry
MaxInterval == 2      \* largest `interval` passed to lazyWithRetry
MaxWait == 2          \* largest `wait` of debounce and `limit` of throttle
MaxCalls == 3         \* calls made to one debounced / throttled function
MaxMemoCalls == 3     \* calls made to one memoized function
MaxSegments == 3      \* path segments making up a module id
MaxElems == 1         \* elements of an array held in a dependency list
MaxRenders == 3       \* renders of the component calling useDeepEffect
MaxHookCalls == 2     \* calls made to the function useDebouncedCallback returns

None == "none"

VARIABLES
  now,            \* host clock
  timers,         \* host timer table: the pending setTimeout callbacks
  nextTimerId,    \* next handle setTimeout returns
  \* lazyWithRetry
  retries,        \* parameter `retries`
  interval,       \* parameter `interval`
  promise,        \* the promise the loader returns: [state, value]
  pendingImports, \* the importFunc() promises not yet settled
  attemptLog,     \* history: one entry per importFunc() invocation
  \* debounce and throttle
  wrappers,       \* the wrapped functions that have been created
  \* debounce
  wait,           \* parameter `wait`
  timeout,        \* closure variable `timeout`: a timer handle or null
  dbCalls,        \* history: the calls of the debounced function
  dbInvoked,      \* history: the invocations of `func` by debounce
  \* throttle
  limit,          \* parameter `limit`
  inThrottle,     \* closure variable `inThrottle`
  thCalls,        \* history: the calls of the throttled function
  thInvoked,      \* history: the invocations of `func` by throttle
  \* memoize
  getKey,         \* parameter `getKey`: which key function, or "none"
  cache,          \* the Map `cache`
  memoLog,        \* history: the calls of the memoized function
  \* manualChunks
  moduleId,       \* argument `id`
  chunk,          \* the chunk name returned
  \* useDeepCallback
  mounted,        \* the component has rendered before
  ref,            \* ref.current
  depsRef,        \* depsRef.current
  memoizedCallback, \* the function useCallback(..., []) keeps
  returned,       \* what the hook returned on the last render
  passed,         \* history: the callback passed on the last render
  prevReturned,   \* history: what the hook returned on the render before
  changed,        \* history: the last render's deps differed from the stored
  \* useDeepEffect
  effectMounted,  \* the component has rendered before
  effectRef,      \* ref.current
  signalRef,      \* signalRef.current
  renders,        \* history: number of renders so far
  lastDeps,       \* history: the deps of the last render
  effectRan,      \* history: the effect ran after the last render
  sameAsPrevious, \* history: deepEqual(deps of the render before, last deps)
  structAsPrevious, \* history: the last deps have the structure of those before
  \* deepEqual
  argA,           \* argument `a`
  argB,           \* argument `b`
  resultAB,       \* what deepEqual(a, b) returned
  resultBA,       \* what deepEqual(b, a) returned
  \* useDebouncedCallback
  delay,          \* parameter `delay`
  callbackRef,    \* callbackRef.current
  memoDeps,       \* the dependency list useMemo keeps: [delay, ...deps]
  debounced,      \* the debounced function the last render returned
  created,        \* number of debounced functions created so far
  rendered,       \* the callback of a render whose effects have not run yet
  committed,      \* the callback of the most recently committed render
  calledWith,     \* history: callbackRef.current at the last call
  invokedCb,      \* history: the callback the last timer invoked
  committedThen   \* history: `committed` when the last timer ran

hostVars == <<now, timers, nextTimerId>>
lazyVars == <<retries, interval, promise, pendingImports, attemptLog>>
debounceVars == <<wait, timeout, dbCalls, dbInvoked>>
throttleVars == <<limit, inThrottle, thCalls, thInvoked>>
memoVars == <<getKey, cache, memoLog>>
chunkVars == <<moduleId, chunk>>
deepCbVars == <<mounted, ref, depsRef, memoizedCallback, returned, passed,
                prevReturned, changed>>
deepEffectVars == <<effectMounted, effectRef, signalRef, renders, lastDeps,
                    effectRan, sameAsPrevious, structAsPrevious>>
deepEqualVars == <<argA, argB, resultAB, resultBA>>
hookVars == <<delay, callbackRef, memoDeps, debounced, created, rendered,
              committed, calledWith, invokedCb, committedThen>>
vars == <<hostVars, lazyVars, wrappers, debounceVars, throttleVars, memoVars,
          chunkVars, deepCbVars, deepEffectVars, deepEqualVars, hookVars>>

\* what each helper leaves alone: the helpers share nothing but the host
pureVars == <<memoVars, chunkVars, deepCbVars, deepEffectVars, deepEqualVars>>
otherThanLazy == <<wrappers, debounceVars, throttleVars, pureVars, hookVars>>
\* useDebouncedCallback wraps debounce: its variables are left to the caller
otherThanDebounce == <<wrappers, lazyVars, throttleVars, pureVars>>
otherThanThrottle == <<wrappers, lazyVars, debounceVars, pureVars, hookVars>>
timedVars == <<lazyVars, wrappers, debounceVars, throttleVars, hookVars>>
otherThanMemo ==
  <<hostVars, timedVars, chunkVars, deepCbVars, deepEffectVars, deepEqualVars>>
otherThanChunks ==
  <<hostVars, timedVars, memoVars, deepCbVars, deepEffectVars, deepEqualVars>>
otherThanDeepCb ==
  <<hostVars, timedVars, memoVars, chunkVars, deepEffectVars, deepEqualVars>>
otherThanDeepEffect ==
  <<hostVars, timedVars, memoVars, chunkVars, deepCbVars, deepEqualVars>>
otherThanDeepEqual ==
  <<hostVars, timedVars, memoVars, chunkVars, deepCbVars, deepEffectVars>>
appVars == <<timedVars, pureVars>>

\* ------------------------------------------------------------ host timers
\* setTimeout(cb, ms): a callback of `owner`, whose closure holds `args`
\* and the number `n`, due `ms` from now (the host clamps a negative delay
\* to 0).  Handles are positive integers.
SetTimeout(tt, owner, args, n, ms) ==
  tt \cup {[id |-> nextTimerId, owner |-> owner, args |-> args, n |-> n,
            deadline |-> now + (IF ms < 0 THEN 0 ELSE ms)]}

\* clearTimeout(id)
ClearTimeout(tt, id) == {t \in tt : t.id # id}

\* A timer callback may run once its deadline is reached.
Due(t) == t.deadline <= now

\* The clock advances unless a timer is overdue by MaxLate.
Tick ==
  /\ now < MaxTime
  /\ \A t \in timers : now < t.deadline + MaxLate
  /\ now' = now + 1
  /\ UNCHANGED <<timers, nextTimerId, appVars>>

HostInit ==
  /\ now = 0
  /\ timers = {}
  /\ nextTimerId = 1

\* ---------------------------------------------------------- lazyWithRetry
Modules == {"modA", "modB"}
Errors == {"err1", "err2"}
RetryCounts == -1 .. MaxRetries
Intervals == 0 .. MaxInterval
\* attempts the model follows when `retries` is negative
MaxAttempts == MaxRetries + 2

LazyStart ==
  /\ promise = [state |-> "uninitialized", value |-> None]
  /\ pendingImports = {}
  /\ attemptLog = <<>>

LazyInit == retries \in RetryCounts /\ interval \in Intervals /\ LazyStart
LazyIdle == retries = 0 /\ interval = 0 /\ LazyStart

\* attemptImport(attemptsLeft), line 20: importFunc() is invoked and its
\* promise is pending.
AttemptImport(attemptsLeft) ==
  /\ Len(attemptLog) < MaxAttempts
  /\ attemptLog' = Append(attemptLog,
       [start |-> now, attemptsLeft |-> attemptsLeft,
        outcome |-> "pending", value |-> None])
  /\ pendingImports' = pendingImports \cup
       {[attempt |-> Len(attemptLog) + 1, attemptsLeft |-> attemptsLeft]}

\* resolve(v) / reject(e) of the loader's promise: a settled promise stays.
Settle(p, state, value) ==
  IF p.state = "pending" THEN [state |-> state, value |-> value] ELSE p

\* React.lazy calls the loader on the first render: the executor runs
\* attemptImport(retries).
LazyLoad ==
  /\ promise.state = "uninitialized"
  /\ promise' = [state |-> "pending", value |-> None]
  /\ AttemptImport(retries)
  /\ UNCHANGED <<retries, interval, hostVars, otherThanLazy>>

\* a slip: .then(() => resolve()) drops the module
ImportResolved_DropsModule(imp, m) ==
  /\ imp \in pendingImports
  /\ pendingImports' = pendingImports \ {imp}
  /\ attemptLog' = [attemptLog EXCEPT ![imp.attempt].outcome = "ok",
                                      ![imp.attempt].value = m]
  /\ promise' = Settle(promise, "resolved", None)
  /\ UNCHANGED <<retries, interval, hostVars, otherThanLazy>>

\* importFunc()'s promise fulfils with module m: .then(resolve)
ImportResolved(imp, m) ==
  /\ imp \in pendingImports
  /\ pendingImports' = pendingImports \ {imp}
  /\ attemptLog' = [attemptLog EXCEPT ![imp.attempt].outcome = "ok",
                                      ![imp.attempt].value = m]
  /\ promise' = Settle(promise, "resolved", m)
  /\ UNCHANGED <<retries, interval, hostVars, otherThanLazy>>

\* a slip: the retry is scheduled without the interval
ImportRejected_NoInterval(imp, e) ==
  /\ imp \in pendingImports
  /\ pendingImports' = pendingImports \ {imp}
  /\ attemptLog' = [attemptLog EXCEPT ![imp.attempt].outcome = "err",
                                      ![imp.attempt].value = e]
  /\ IF imp.attemptsLeft = 0
       THEN /\ promise' = Settle(promise, "rejected", e)
            /\ UNCHANGED <<timers, nextTimerId>>
       ELSE /\ timers' = SetTimeout(timers, "lazy", None, imp.attemptsLeft, 0)
            /\ nextTimerId' = nextTimerId + 1
            /\ UNCHANGED promise
  /\ UNCHANGED <<retries, interval, now, otherThanLazy>>

\* a slip: the first error is kept and surfaced instead of the last
ImportRejected_FirstError(imp, e) ==
  /\ imp \in pendingImports
  /\ pendingImports' = pendingImports \ {imp}
  /\ attemptLog' = [attemptLog EXCEPT ![imp.attempt].outcome = "err",
                                      ![imp.attempt].value = e]
  /\ IF imp.attemptsLeft = 0
       THEN /\ promise' = Settle(promise, "rejected", attemptLog'[1].value)
            /\ UNCHANGED <<timers, nextTimerId>>
       ELSE /\ timers' = SetTimeout(timers, "lazy", None, imp.attemptsLeft, interval)
            /\ nextTimerId' = nextTimerId + 1
            /\ UNCHANGED promise
  /\ UNCHANGED <<retries, interval, now, otherThanLazy>>

\* importFunc()'s promise rejects with error e: the .catch handler
ImportRejected(imp, e) ==
  /\ imp \in pendingImports
  /\ pendingImports' = pendingImports \ {imp}
  /\ attemptLog' = [attemptLog EXCEPT ![imp.attempt].outcome = "err",
                                      ![imp.attempt].value = e]
  /\ IF imp.attemptsLeft = 0
       THEN /\ promise' = Settle(promise, "rejected", e)
            /\ UNCHANGED <<timers, nextTimerId>>
       ELSE /\ timers' = SetTimeout(timers, "lazy", None, imp.attemptsLeft, interval)
            /\ nextTimerId' = nextTimerId + 1
            /\ UNCHANGED promise
  /\ UNCHANGED <<retries, interval, now, otherThanLazy>>

\* a slip: the retry does not count down
RetryTimer_NoDecrement(t) ==
  /\ t \in timers
  /\ t.owner = "lazy"
  /\ Due(t)
  /\ timers' = timers \ {t}
  /\ AttemptImport(t.n)
  /\ UNCHANGED <<retries, interval, promise, now, nextTimerId, otherThanLazy>>

\* the retry timer's callback: attemptImport(attemptsLeft - 1)
RetryTimer(t) ==
  /\ t \in timers
  /\ t.owner = "lazy"
  /\ Due(t)
  /\ timers' = timers \ {t}
  /\ AttemptImport(t.n - 1)
  /\ UNCHANGED <<retries, interval, promise, now, nextTimerId, otherThanLazy>>

LazyNext ==
  \/ LazyLoad
  \/ \E imp \in pendingImports, m \in Modules : ImportResolved(imp, m)
  \/ \E imp \in pendingImports, e \in Errors : ImportRejected(imp, e)
  \/ \E t \in timers : RetryTimer(t)
  \/ Tick


\* ---- properties of lazyWithRetry
Attempts == Len(attemptLog)
Failed(i) == attemptLog[i].outcome = "err"
Succeeded(i) == attemptLog[i].outcome = "ok"
AnySucceeded == \E i \in 1 .. Attempts : Succeeded(i)

\* C1: with retries = N >= 0 and every attempt failing, importFunc is invoked
\* exactly N+1 times before the loader's promise is rejected (never more than
\* N+1 on the way there), and it is not invoked again after the rejection.
C1_AttemptsBeforeRejection ==
  /\ [](retries >= 0 =>
         /\ Attempts <= retries + 1
         /\ promise.state = "rejected" =>
              /\ Attempts = retries + 1
              /\ \A i \in 1 .. Attempts : Failed(i))
  /\ [][promise.state = "rejected" => Len(attemptLog') = Len(attemptLog)]_vars

C1_Witness ==
  /\ retries = MaxRetries
  /\ promise.state = "rejected"
  /\ Attempts = MaxRetries + 1

\* C2: when every attempt fails, the loader's promise is rejected with the
\* error of the last attempt made, the one that had no retries left.
C2_RejectsWithLastError ==
  promise.state = "rejected" =>
    /\ Attempts >= 1
    /\ Failed(Attempts)
    /\ attemptLog[Attempts].attemptsLeft = 0
    /\ promise.value = attemptLog[Attempts].value

C2_Witness ==
  /\ promise.state = "rejected"
  /\ Attempts = 3
  /\ attemptLog[1].value = "err1"
  /\ attemptLog[2].value = "err1"
  /\ attemptLog[3].value = "err2"
  /\ promise.value = "err2"

\* C3: once an attempt succeeds, the loader's promise is resolved with the
\* module of that attempt, which is the first success and the last attempt
\* made; importFunc is not invoked again and the promise is never rejected.
C3_ResolvesWithFirstSuccess ==
  /\ [](AnySucceeded =>
         /\ Succeeded(Attempts)
         /\ \A i \in 1 .. Attempts - 1 : Failed(i)
         /\ promise = [state |-> "resolved", value |-> attemptLog[Attempts].value]
         /\ pendingImports = {}
         /\ timers = {})
  /\ [][AnySucceeded => /\ Len(attemptLog') = Len(attemptLog)
                        /\ promise' = promise]_vars

C3_Witness ==
  /\ Attempts = 2
  /\ Failed(1)
  /\ Succeeded(2)
  /\ promise = [state |-> "resolved", value |-> "modB"]

\* C4: every attempt after the first starts at least `interval` after the
\* start of the preceding attempt, which has failed by then, and at most one
\* attempt is in flight at any time.
C4_AttemptsSpacedByInterval ==
  /\ \A i \in 2 .. Attempts :
       /\ Failed(i - 1)
       /\ attemptLog[i].start >= attemptLog[i - 1].start + interval
  /\ Cardinality(pendingImports) + Cardinality(timers) <= 1

C4_Witness ==
  /\ interval = MaxInterval
  /\ Attempts >= 2
  /\ attemptLog[2].start = attemptLog[1].start + interval
  /\ Cardinality(pendingImports) = 1



\* C13: the retry loop is bounded for every integer `retries`, zero and
\* negative included: importFunc is invoked at most once more than there are
\* retries to make (none when `retries` is not positive), so only finitely
\* many attempts are made before the loader's promise settles.
C13_RetryLoopBounded ==
  Attempts <= (IF retries > 0 THEN retries ELSE 0) + 1

\* with negative `retries` no failure ever rejects the loader's promise
NegativeRetriesNeverReject ==
  retries < 0 => promise.state # "rejected"

\* --------------------------------------------------------------- debounce
Args == {"a", "b"}
Waits == 1 .. MaxWait

\* `timeout` is null (0 here) or a timer handle; `if (timeout)` tests it
Null == 0
Truthy(x) == x # 0

DebounceStart ==
  /\ timeout = Null
  /\ dbCalls = <<>>
  /\ dbInvoked = <<>>

\* debounce(func, wait) has been called / has not
DebounceInit == wait \in Waits /\ DebounceStart
DebounceIdle == wait = 0 /\ DebounceStart

\* a slip: a call made while a timer is pending leaves that timer running
DebounceCall_NoReset(args) ==
  /\ "debounce" \in wrappers
  /\ Len(dbCalls) < MaxCalls
  /\ dbCalls' = Append(dbCalls, [time |-> now, args |-> args])
  /\ IF Truthy(timeout)
       THEN UNCHANGED <<timers, timeout, nextTimerId>>
       ELSE /\ timers' = SetTimeout(timers, "debounce", args,
                                    Len(dbCalls) + 1, wait)
            /\ timeout' = nextTimerId
            /\ nextTimerId' = nextTimerId + 1
  /\ UNCHANGED <<wait, dbInvoked, now, otherThanDebounce>>

\* a slip: the pending timer is not cancelled before a new one is armed
DebounceCall_NoClear(args) ==
  /\ "debounce" \in wrappers
  /\ Len(dbCalls) < MaxCalls
  /\ dbCalls' = Append(dbCalls, [time |-> now, args |-> args])
  /\ timers' = SetTimeout(timers, "debounce", args, Len(dbCalls) + 1, wait)
  /\ timeout' = nextTimerId
  /\ nextTimerId' = nextTimerId + 1
  /\ UNCHANGED <<wait, dbInvoked, now, otherThanDebounce>>

\* executedFunction(...args), lines 55-62: cancel the pending timer, arm a
\* new one whose callback `later` holds this call's args.
DebounceCall(args) ==
  /\ "debounce" \in wrappers
  /\ Len(dbCalls) < MaxCalls
  /\ dbCalls' = Append(dbCalls, [time |-> now, args |-> args])
  /\ timers' = SetTimeout(IF Truthy(timeout) THEN ClearTimeout(timers, timeout)
                                           ELSE timers,
                          "debounce", args, Len(dbCalls) + 1, wait)
  /\ timeout' = nextTimerId
  /\ nextTimerId' = nextTimerId + 1
  /\ UNCHANGED <<wait, dbInvoked, now, otherThanDebounce>>

\* later(), lines 56-59: timeout = null; func(...args)
DebounceTimer(t) ==
  /\ t \in timers
  /\ t.owner = "debounce"
  /\ Due(t)
  /\ timers' = timers \ {t}
  /\ timeout' = Null
  /\ dbInvoked' = Append(dbInvoked,
       [time |-> now, args |-> t.args, call |-> t.n,
        seen |-> Len(dbCalls)])
  /\ UNCHANGED <<wait, dbCalls, now, nextTimerId, otherThanDebounce>>

DebounceNext ==
  \/ \E args \in Args : DebounceCall(args) /\ UNCHANGED hookVars
  \/ \E t \in timers : DebounceTimer(t) /\ UNCHANGED hookVars
  \/ Tick

\* ---- properties of debounce
Invoked(k) == \E i \in 1 .. Len(dbInvoked) : dbInvoked[i].call = k
\* call k ends a burst: no call follows it within less than `wait`
EndsBurst(k) ==
  k = Len(dbCalls) \/ dbCalls[k + 1].time >= dbCalls[k].time + wait

\* C6: in a burst of calls each less than `wait` after the previous one, no
\* call but the last is ever invoked; func is invoked by the timer of the last
\* call, with that call's args, `wait` after it (as late as the host runs the
\* timer), while no later call has been made; no call is invoked twice, and
\* once no timer is pending the last call has been invoked, so the burst
\* yields exactly one invocation.
C6_DebounceInvokesLastOfBurst ==
  /\ \A i \in 1 .. Len(dbInvoked) :
       LET e == dbInvoked[i]
           c == dbCalls[e.call]
       IN /\ e.seen = e.call
          /\ EndsBurst(e.call)
          /\ e.args = c.args
          /\ e.time >= c.time + wait
          /\ e.time <= c.time + wait + MaxLate
          /\ \A j \in 1 .. Len(dbInvoked) :
               dbInvoked[j].call = e.call => j = i
  /\ \A k \in 1 .. Len(dbCalls) : ~EndsBurst(k) => ~Invoked(k)
  /\ Len(dbCalls) >= 1 =>
       (Invoked(Len(dbCalls)) <=> {t \in timers : t.owner = "debounce"} = {})

C6_Witness ==
  /\ wait = 2
  /\ Len(dbCalls) = 3
  /\ dbCalls[1] = [time |-> 0, args |-> "a"]
  /\ dbCalls[2] = [time |-> 1, args |-> "a"]
  /\ dbCalls[3] = [time |-> 2, args |-> "b"]
  /\ dbInvoked = <<[time |-> 4, args |-> "b", call |-> 3, seen |-> 3]>>
  /\ timers = {}

\* --------------------------------------------------------------- throttle
Limits == 1 .. MaxWait
\* func(...args) returns or throws
Outcomes == {"returns", "throws"}
\* `let inThrottle: boolean;` starts undefined
Falsy(x) == x \in {"undefined", "false"}

ThrottleStart ==
  /\ inThrottle = "undefined"
  /\ thCalls = <<>>
  /\ thInvoked = <<>>

\* throttle(func, limit) has been called / has not
ThrottleInit == limit \in Limits /\ ThrottleStart
ThrottleIdle == limit = 0 /\ ThrottleStart

\* executedFunction(...args), lines 73-78: outside a window func is invoked,
\* and when it has returned the window opens and its timer is armed; a throw
\* of func leaves the function before line 76.
ThrottleCall(args, outcome) ==
  /\ "throttle" \in wrappers
  /\ Len(thCalls) < MaxCalls
  /\ thCalls' = Append(thCalls, [time |-> now, args |-> args])
  /\ IF Falsy(inThrottle)
       THEN /\ thInvoked' = Append(thInvoked,
                 [time |-> now, args |-> args, call |-> Len(thCalls) + 1,
                  outcome |-> outcome])
            /\ IF outcome = "returns"
                 THEN /\ inThrottle' = "true"
                      /\ timers' = SetTimeout(timers, "throttle", None, 0, limit)
                      /\ nextTimerId' = nextTimerId + 1
                 ELSE UNCHANGED <<inThrottle, timers, nextTimerId>>
       ELSE UNCHANGED <<thInvoked, inThrottle, timers, nextTimerId>>
  /\ UNCHANGED <<limit, now, otherThanThrottle>>

\* the timer callback, line 77: inThrottle = false
ThrottleTimer(t) ==
  /\ t \in timers
  /\ t.owner = "throttle"
  /\ Due(t)
  /\ timers' = timers \ {t}
  /\ inThrottle' = "false"
  /\ UNCHANGED <<limit, thCalls, thInvoked, now, nextTimerId, otherThanThrottle>>

ThrottleNext ==
  \/ \E args \in Args, outcome \in Outcomes : ThrottleCall(args, outcome)
  \/ \E t \in timers : ThrottleTimer(t)
  \/ Tick

\* ---- properties of throttle
\* C7: any two invocations of func are at least `limit` apart; each happens
\* synchronously on a call, with that call's args; a call is invoked at most
\* once, so a dropped call is never invoked later.
C7_ThrottleInvocationsSpaced ==
  /\ \A i, j \in 1 .. Len(thInvoked) :
       i < j => /\ thInvoked[j].time >= thInvoked[i].time + limit
                /\ thInvoked[j].call # thInvoked[i].call
  /\ \A i \in 1 .. Len(thInvoked) :
       LET e == thInvoked[i]
       IN /\ e.time = thCalls[e.call].time
          /\ e.args = thCalls[e.call].args

\* ---- properties of debounce and throttle
TimersOf(owner) == {t \in timers : t.owner = owner}

\* C8: each function returned by debounce or throttle has at most one pending
\* timer: the debounced function's is the one `timeout` holds, and the
\* throttled function has one exactly while inThrottle is true.
C8_OnePendingTimer ==
  /\ Cardinality(TimersOf("debounce")) <= 1
  /\ \A t \in TimersOf("debounce") : t.id = timeout
  /\ Cardinality(TimersOf("throttle")) <= 1
  /\ TimersOf("throttle") # {} <=> inThrottle = "true"

C8_WitnessDebounce ==
  /\ Len(dbCalls) = 2
  /\ dbCalls[2].time < dbCalls[1].time + wait
  /\ dbInvoked = <<>>
  /\ Cardinality(TimersOf("debounce")) = 1

\* ---------------------------------------------------------------- memoize
\* the argument lists the memoized function is called with (one argument)
MemoArgs == {"1", "2", "null", "undefined"}
\* what fn returns
Results == {"r1", "r2", "undefined"}
GetKeys == {"none", "byValue", "constant"}

\* JSON.stringify(args) of a one-argument list: undefined serialises as null
Stringify(args) ==
  CASE args = "1" -> "[1]"
    [] args = "2" -> "[2]"
    [] args = "null" -> "[null]"
    [] args = "undefined" -> "[null]"

\* line 157: getKey ? getKey(...args) : JSON.stringify(args)
KeyOf(args) ==
  CASE getKey = "none" -> Stringify(args)
    [] getKey = "byValue" -> args
    [] getKey = "constant" -> "k"

\* a slip: `if (cache.get(key))` takes a falsy cached value for a miss
CacheHas_Truthy(key) == key \in DOMAIN cache /\ cache[key] # "undefined"

\* cache.has(key), line 159
CacheHas(key) == key \in DOMAIN cache

\* cache.set(key, result), line 164
CacheSet(key, result) ==
  [k \in DOMAIN cache \cup {key} |-> IF k = key THEN result ELSE cache[k]]

NoEntries == [k \in {} |-> "undefined"]

MemoStart ==
  /\ cache = NoEntries
  /\ memoLog = <<>>

MemoInit == getKey \in GetKeys /\ MemoStart
MemoIdle == getKey = "none" /\ MemoStart

\* the memoized function, lines 156-166, called with `args`; on a miss fn is
\* invoked and returns `result` or throws.
MemoCall(args, outcome, result) ==
  LET key == KeyOf(args) IN
  /\ Len(memoLog) < MaxMemoCalls
  /\ IF CacheHas(key)
       THEN /\ memoLog' = Append(memoLog,
                 [key |-> key, invoked |-> FALSE, outcome |-> "returns",
                  value |-> cache[key]])
            /\ UNCHANGED cache
       ELSE IF outcome = "returns"
         THEN /\ cache' = CacheSet(key, result)
              /\ memoLog' = Append(memoLog,
                   [key |-> key, invoked |-> TRUE, outcome |-> "returns",
                    value |-> result])
         ELSE /\ memoLog' = Append(memoLog,
                   [key |-> key, invoked |-> TRUE, outcome |-> "throws",
                    value |-> None])
              /\ UNCHANGED cache
  /\ UNCHANGED <<getKey, otherThanMemo>>

MemoNext ==
  \E args \in MemoArgs, outcome \in Outcomes, result \in Results :
    MemoCall(args, outcome, result)

\* ---- properties of memoize
\* C5: after a call with key k has returned, every later call with key k
\* returns the value that call returned and does not invoke fn.
C5_MemoizedValueReused ==
  \A i, j \in 1 .. Len(memoLog) :
    (i < j /\ memoLog[i].key = memoLog[j].key /\ memoLog[i].outcome = "returns")
      => /\ memoLog[j].outcome = "returns"
         /\ memoLog[j].value = memoLog[i].value
         /\ ~memoLog[j].invoked

\* two argument lists with one key: the second call is served from the cache
C5_Witness ==
  /\ getKey = "none"
  /\ Len(memoLog) = 3
  /\ memoLog[1] = [key |-> "[null]", invoked |-> TRUE, outcome |-> "throws",
                   value |-> None]
  /\ memoLog[2] = [key |-> "[null]", invoked |-> TRUE, outcome |-> "returns",
                   value |-> "undefined"]
  /\ memoLog[3] = [key |-> "[null]", invoked |-> FALSE, outcome |-> "returns",
                   value |-> "undefined"]

\* ----------------------------------------------------------- manualChunks
\* Strings are sequences of characters, so that includes() is substring
\* search.  The literals of vite.config.ts lines 110-132:
S_node_modules == <<"n", "o", "d", "e", "_", "m", "o", "d", "u", "l", "e", "s">>
S_react == <<"r", "e", "a", "c", "t">>
S_react_dom == <<"r", "e", "a", "c", "t", "-", "d", "o", "m">>
S_react_router == <<"r", "e", "a", "c", "t", "-", "r", "o", "u", "t", "e", "r">>
S_antd_mobile == <<"a", "n", "t", "d", "-", "m", "o", "b", "i", "l", "e">>
S_antd_mobile_icons == <<"a", "n", "t", "d", "-", "m", "o", "b", "i", "l", "e", "-", "i", "c", "o", "n", "s">>
S_i18next == <<"i", "1", "8", "n", "e", "x", "t">>
S_react_i18next == <<"r", "e", "a", "c", "t", "-", "i", "1", "8", "n", "e", "x", "t">>
S_nano == <<"n", "a", "n", "o">>
S_bip39 == <<"b", "i", "p", "3", "9">>
S_argon2 == <<"a", "r", "g", "o", "n", "2">>
S_crypto == <<"c", "r", "y", "p", "t", "o">>
S_capacitor == <<"@", "c", "a", "p", "a", "c", "i", "t", "o", "r">>
S_firebase == <<"f", "i", "r", "e", "b", "a", "s", "e">>

\* id.includes(sub)
Includes(str, sub) ==
  \E i \in 0 .. Len(str) - Len(sub) : SubSeq(str, i + 1, i + Len(sub)) = sub

\* the path segments module ids are made of: directories and package names
Segments == {
  <<"n", "o", "d", "e", "_", "m", "o", "d", "u", "l", "e", "s">>,
  <<"s", "r", "c">>,
  <<"c", "o", "m", "p", "o", "n", "e", "n", "t", "s">>,
  <<"l", "o", "d", "a", "s", "h">>,
  <<"r", "e", "a", "c", "t">>,
  <<"r", "e", "a", "c", "t", "-", "d", "o", "m">>,
  <<"r", "e", "a", "c", "t", "-", "r", "o", "u", "t", "e", "r">>,
  <<"r", "e", "a", "c", "t", "-", "i", "1", "8", "n", "e", "x", "t">>,
  <<"i", "1", "8", "n", "e", "x", "t">>,
  <<"a", "n", "t", "d", "-", "m", "o", "b", "i", "l", "e">>,
  <<"a", "n", "t", "d", "-", "m", "o", "b", "i", "l", "e", "-", "i", "c", "o", "n", "s">>,
  <<"n", "a", "n", "o", "c", "u", "r", "r", "e", "n", "c", "y">>,
  <<"b", "i", "p", "3", "9">>,
  <<"a", "r", "g", "o", "n", "2", "-", "b", "r", "o", "w", "s", "e", "r">>,
  <<"c", "r", "y", "p", "t", "o", "-", "j", "s">>,
  <<"@", "c", "a", "p", "a", "c", "i", "t", "o", "r">>,
  <<"f", "i", "r", "e", "b", "a", "s", "e">> }

RECURSIVE PathsOf(_)
\* the paths of exactly n segments, joined by "/"
PathsOf(n) ==
  IF n = 1 THEN Segments
  ELSE {head \o <<"/">> \o seg : head \in PathsOf(n - 1), seg \in Segments}

\* the module ids of at most `n` segments
ModuleIds(n) == UNION {PathsOf(k) : k \in 1 .. n}

\* manualChunks(id), lines 108-138; "undefined" when nothing is returned
manualChunks(id) ==
  IF Includes(id, S_node_modules)
    THEN IF \/ Includes(id, S_react)
            \/ Includes(id, S_react_dom)
            \/ Includes(id, S_react_router)
           THEN "vendor-react"
         ELSE IF Includes(id, S_antd_mobile) \/ Includes(id, S_antd_mobile_icons)
           THEN "vendor-ui"
         ELSE IF Includes(id, S_i18next) \/ Includes(id, S_react_i18next)
           THEN "vendor-i18n"
         ELSE IF \/ Includes(id, S_nano)
                 \/ Includes(id, S_bip39)
                 \/ Includes(id, S_argon2)
                 \/ Includes(id, S_crypto)
           THEN "vendor-crypto"
         ELSE IF Includes(id, S_capacitor)
           THEN "vendor-capacitor"
         ELSE IF Includes(id, S_firebase)
           THEN "vendor-firebase"
         ELSE "vendor-misc"
    ELSE "undefined"

ChunksStart == chunk = "pending"
ChunksInit == moduleId \in ModuleIds(MaxSegments) /\ ChunksStart
ChunksIdle == moduleId = <<>> /\ ChunksStart

\* the bundler asks for the chunk of a module
ManualChunks ==
  /\ chunk = "pending"
  /\ chunk' = manualChunks(moduleId)
  /\ UNCHANGED <<moduleId, otherThanChunks>>

ChunksNext == ManualChunks

\* ---- properties of manualChunks
\* the markers of each library family, by chunk name
FamilyMarkers(name) ==
  CASE name = "vendor-react" -> {S_react, S_react_dom, S_react_router}
    [] name = "vendor-ui" -> {S_antd_mobile, S_antd_mobile_icons}
    [] name = "vendor-i18n" -> {S_i18next, S_react_i18next}
    [] name = "vendor-crypto" -> {S_nano, S_bip39, S_argon2, S_crypto}
    [] name = "vendor-capacitor" -> {S_capacitor}
    [] name = "vendor-firebase" -> {S_firebase}
Families == {"vendor-react", "vendor-ui", "vendor-i18n", "vendor-crypto",
             "vendor-capacitor", "vendor-firebase"}
InFamily(id, name) == \E m \in FamilyMarkers(name) : Includes(id, m)

\* C9: a module under node_modules whose path contains 'i18next' or
\* 'react-i18next' gets the chunk 'vendor-i18n'; a module under node_modules
\* whose path contains the marker of one library family gets that family's
\* chunk; an id without 'node_modules' gets no chunk name.
C9_ChunkByFamilyMarker ==
  chunk # "pending" =>
    /\ (Includes(moduleId, S_node_modules) /\ InFamily(moduleId, "vendor-i18n"))
         => chunk = "vendor-i18n"
    /\ \A name \in Families :
         (/\ Includes(moduleId, S_node_modules)
          /\ InFamily(moduleId, name)
          /\ \A other \in Families \ {name} : ~InFamily(moduleId, other))
           => chunk = name
    /\ ~Includes(moduleId, S_node_modules) => chunk = "undefined"

\* -------------------------------------------------------- JavaScript values
\* A value is a primitive, an array or a plain object.  Arrays and objects
\* have an identity: two copies with the same content are different objects.
Prims == {"1", "undefined", "null", "NaN"}
PropKeys == {"x", "y"}
Copies == {"first", "second"}
NoProps == [k \in {} |-> None]

Prim(p) ==
  [kind |-> "prim", copy |-> None, p |-> p, elems |-> <<>>, props |-> NoProps]
Arr(c, es) ==
  [kind |-> "array", copy |-> c, p |-> None, elems |-> es, props |-> NoProps]
Obj(c, f) ==
  [kind |-> "object", copy |-> c, p |-> None, elems |-> <<>>, props |-> f]
Undefined == Prim("undefined")

SeqsUpTo(S, n) == UNION {[1 .. k -> S] : k \in 0 .. n}
PrimValues == {Prim(p) : p \in Prims}
Values ==
  PrimValues
    \cup {Arr(c, es) : c \in Copies, es \in SeqsUpTo(PrimValues, MaxElems)}
    \cup {Obj(c, f) : c \in Copies,
                      f \in UNION {[K -> PrimValues] : K \in SUBSET PropKeys}}
\* the dependency lists the hooks are given: none or one dependency
DepsLengths == {0, 1}
DepsLists ==
  {Arr(c, es) : c \in Copies, es \in UNION {[1 .. k -> Values] : k \in DepsLengths}}

\* a === b: primitives by value (NaN equals nothing), objects by identity
StrictEquals(a, b) ==
  IF a.kind = "prim" /\ b.kind = "prim" THEN a.p = b.p /\ a.p # "NaN" ELSE a = b

\* x == null
IsNullish(a) == a.kind = "prim" /\ a.p \in {"null", "undefined"}
\* Array.isArray(x)
IsArray(a) == a.kind = "array"
\* typeof x === 'object'
TypeofObject(a) == a.kind \in {"array", "object"} \/ (a.kind = "prim" /\ a.p = "null")

\* Object.keys(x): an array's keys are its indices
IndexKeys == <<"0", "1", "2", "3">>
ObjectKeys(a) ==
  IF IsArray(a) THEN {IndexKeys[i] : i \in 1 .. Len(a.elems)} ELSE DOMAIN a.props
\* x[key]: undefined when x has no such property
Get(a, key) ==
  IF IsArray(a)
    THEN IF \E i \in 1 .. Len(a.elems) : IndexKeys[i] = key
           THEN a.elems[CHOOSE i \in 1 .. Len(a.elems) : IndexKeys[i] = key]
           ELSE Undefined
    ELSE IF key \in DOMAIN a.props THEN a.props[key] ELSE Undefined

RECURSIVE deepEqual(_, _)
\* deepEqual(a, b), use-optimized-memo.ts lines 30-50
deepEqual(a, b) ==
  IF StrictEquals(a, b) THEN TRUE
  ELSE IF IsNullish(a) \/ IsNullish(b) THEN FALSE
  ELSE IF IsArray(a) /\ IsArray(b)
    THEN IF Len(a.elems) # Len(b.elems) THEN FALSE
         ELSE \A i \in 1 .. Len(a.elems) : deepEqual(a.elems[i], b.elems[i])
  ELSE IF TypeofObject(a) /\ TypeofObject(b)
    THEN IF Cardinality(ObjectKeys(a)) # Cardinality(ObjectKeys(b)) THEN FALSE
         ELSE \A key \in ObjectKeys(a) : deepEqual(Get(a, key), Get(b, key))
  ELSE FALSE

\* one comparison of two values, made in both directions
Pending == "pending"
\* a boolean a call returned
Returned(v) == IF v THEN "true" ELSE "false"
DeepEqualIdle ==
  /\ argA = Undefined
  /\ argB = Undefined
  /\ resultAB = Pending
  /\ resultBA = Pending

\* the values compared: a single value or a dependency list
DeepEqualInit ==
  /\ argA \in Values \cup DepsLists
  /\ argB \in Values \cup DepsLists
  /\ resultAB = Pending
  /\ resultBA = Pending

DeepEqual ==
  /\ resultAB = Pending
  /\ resultAB' = Returned(deepEqual(argA, argB))
  /\ resultBA' = Returned(deepEqual(argB, argA))
  /\ UNCHANGED <<argA, argB, otherThanDeepEqual>>

DeepEqualNext == DeepEqual

\* ---- properties of deepEqual
\* C12: deepEqual is symmetric: deepEqual(a, b) and deepEqual(b, a) return
\* the same for all values built from primitives, undefined, arrays and plain
\* objects.
C12_DeepEqualSymmetric ==
  resultAB # Pending => resultAB = resultBA

\* -------------------------------------------------------- useDeepCallback
Callbacks == {"f", "g"}

DeepCbStart ==
  /\ mounted = FALSE
  /\ ref = None
  /\ depsRef = Arr("first", <<>>)
  /\ memoizedCallback = None
  /\ returned = None
  /\ passed = None
  /\ prevReturned = None
  /\ changed = FALSE

DeepCbInit == DeepCbStart
DeepCbIdle == DeepCbStart

\* useCallback(fn, []), line 24: React compares the dependency list with the
\* one of the previous render; two empty lists are equal, so after the first
\* render it returns the function it kept.
UseCallback(fn) == IF mounted THEN memoizedCallback ELSE fn

\* one render of a component calling useDeepCallback(callback, deps), lines
\* 15-24; useRef keeps its initial value from the first render.
UseDeepCallback(callback, deps) ==
  LET ref0 == IF mounted THEN ref ELSE callback
      depsRef0 == IF mounted THEN depsRef ELSE deps
      differs == ~deepEqual(depsRef0, deps)
      ref1 == IF differs THEN callback ELSE ref0
  IN /\ ref' = ref1
     /\ depsRef' = IF differs THEN deps ELSE depsRef0
     /\ memoizedCallback' = UseCallback(ref1)
     /\ returned' = UseCallback(ref1)
     /\ mounted' = TRUE
     /\ passed' = callback
     /\ prevReturned' = returned
     /\ changed' = differs
     /\ UNCHANGED otherThanDeepCb

DeepCbNext ==
  \E callback \in Callbacks, deps \in DepsLists : UseDeepCallback(callback, deps)

\* ---- properties of useDeepCallback
\* C10: on a render whose deps are deeply equal to the stored deps the hook
\* returns the function it returned before, and on a render whose deps differ
\* deeply from the stored deps it returns the callback passed in that render.
C10_DeepCallbackFollowsDeps ==
  mounted =>
    IF changed THEN returned = passed
    ELSE prevReturned # None => returned = prevReturned

\* ---------------------------------------------------------- useDeepEffect
DeepEffectStart ==
  /\ effectMounted = FALSE
  /\ effectRef = Arr("first", <<>>)
  /\ signalRef = 0
  /\ renders = 0
  /\ lastDeps = Arr("first", <<>>)
  /\ effectRan = FALSE
  /\ sameAsPrevious = FALSE
  /\ structAsPrevious = FALSE

DeepEffectInit == DeepEffectStart
DeepEffectIdle == DeepEffectStart

\* two values with the same content, whatever their identity
RECURSIVE SameStructure(_, _)
SameStructure(a, b) ==
  /\ a.kind = b.kind
  /\ a.p = b.p
  /\ Len(a.elems) = Len(b.elems)
  /\ \A i \in 1 .. Len(a.elems) : SameStructure(a.elems[i], b.elems[i])
  /\ DOMAIN a.props = DOMAIN b.props
  /\ \A k \in DOMAIN a.props : SameStructure(a.props[k], b.props[k])

\* useEffect(effect, [signal]), line 246: React runs the effect after the
\* first render, and after a later render when the signal is not the one of
\* the render before (Object.is on numbers).
UseEffect(signalBefore, signal) == ~effectMounted \/ signal # signalBefore

\* one render of a component calling useDeepEffect(effect, deps), lines
\* 238-246, and the effect phase that follows it; useRef keeps its initial
\* value from the first render.
UseDeepEffect(deps) ==
  LET ref0 == IF effectMounted THEN effectRef ELSE deps
      differs == ~deepEqual(ref0, deps)
      signal == IF differs THEN signalRef + 1 ELSE signalRef
  IN /\ renders < MaxRenders
     /\ effectRef' = IF differs THEN deps ELSE ref0
     /\ signalRef' = signal
     /\ effectRan' = UseEffect(signalRef, signal)
     /\ effectMounted' = TRUE
     /\ renders' = renders + 1
     /\ lastDeps' = deps
     /\ sameAsPrevious' = (effectMounted /\ deepEqual(lastDeps, deps))
     /\ structAsPrevious' = (effectMounted /\ SameStructure(lastDeps, deps))
     /\ UNCHANGED otherThanDeepEffect

DeepEffectNext == \E deps \in DepsLists : UseDeepEffect(deps)

\* ---- properties of useDeepEffect
\* C11: the effect runs once after the first render; after a later render it
\* runs if and only if that render's deps are not deeply equal to the deps of
\* the render immediately before; a render whose deps have the same structure
\* as those of the render before does not re-run the effect.
C11_DeepEffectFollowsDeps ==
  /\ renders = 1 => effectRan
  /\ renders > 1 => (effectRan <=> ~sameAsPrevious)
  /\ renders > 1 /\ structAsPrevious => ~effectRan

\* --------------------------------------------------- useDebouncedCallback
HookStart ==
  /\ callbackRef = None
  /\ memoDeps = <<>>
  /\ debounced = 0
  /\ created = 0
  /\ rendered = None
  /\ committed = None
  /\ calledWith = None
  /\ invokedCb = None
  /\ committedThen = None

\* the component passes the same `delay` and the default deps on every render
HookInit == delay \in Waits /\ HookStart
HookIdle == delay = 0 /\ HookStart

\* one render of a component calling useDebouncedCallback(callback, delay),
\* lines 60-72.  useRef keeps the callback of the first render; useMemo
\* creates debounce(..., delay) on the first render and when [delay, ...deps]
\* is not the list it kept, and returns the function it kept otherwise.  The
\* effect of line 62 waits for the commit.  A render may be discarded and
\* followed by another before any commit, but not the first one.
UseDebouncedCallback(callback) ==
  LET first == debounced = 0
      depsNow == <<delay>>
      kept == ~first /\ memoDeps = depsNow
  IN /\ first \/ committed # None
     /\ callbackRef' = IF first THEN callback ELSE callbackRef
     /\ rendered' = callback
     /\ memoDeps' = depsNow
     /\ IF kept
          THEN UNCHANGED <<debounced, created, wrappers, wait, timeout>>
          ELSE /\ created' = created + 1
               /\ debounced' = created + 1
               /\ wrappers' = wrappers \cup {"debounce"}
               /\ wait' = delay
               /\ timeout' = Null
     /\ UNCHANGED <<delay, committed, calledWith, invokedCb, committedThen,
                    dbCalls, dbInvoked, hostVars, lazyVars, throttleVars,
                    pureVars>>

\* a slip: useEffect(..., []) runs after the first render only
CommitEffect_FirstOnly ==
  /\ rendered # None
  /\ callbackRef' = callbackRef
  /\ committed' = rendered
  /\ rendered' = None
  /\ UNCHANGED <<delay, memoDeps, debounced, created, calledWith, invokedCb,
                 committedThen, wrappers, debounceVars, hostVars, lazyVars,
                 throttleVars, pureVars>>

\* the render is committed and its effect runs, lines 62-64: with the
\* dependency list [callback] the effect runs when the callback is not the
\* one of the render committed before.
CommitEffect ==
  /\ rendered # None
  /\ callbackRef' = IF rendered # committed THEN rendered ELSE callbackRef
  /\ committed' = rendered
  /\ rendered' = None
  /\ UNCHANGED <<delay, memoDeps, debounced, created, calledWith, invokedCb,
                 committedThen, wrappers, debounceVars, hostVars, lazyVars,
                 throttleVars, pureVars>>

\* the committed component calls the debounced function the hook returned
HookCall(args) ==
  /\ committed # None
  /\ Len(dbCalls) < MaxHookCalls
  /\ DebounceCall(args)
  /\ calledWith' = callbackRef
  /\ UNCHANGED <<delay, callbackRef, memoDeps, debounced, created, rendered,
                 committed, invokedCb, committedThen>>

\* the timer runs `later`, whose func is the wrapper of lines 68-70:
\* callbackRef.current(...args)
HookTimer(t) ==
  /\ DebounceTimer(t)
  /\ invokedCb' = callbackRef
  /\ committedThen' = committed
  /\ UNCHANGED <<delay, callbackRef, memoDeps, debounced, created, rendered,
                 committed, calledWith>>

HookNext ==
  \/ \E callback \in Callbacks : UseDebouncedCallback(callback)
  \/ CommitEffect
  \/ \E args \in Args : HookCall(args)
  \/ \E t \in timers : HookTimer(t)
  \/ Tick

TimedIdle ==
  /\ HostInit /\ LazyIdle /\ wrappers = {} /\ DebounceIdle /\ ThrottleIdle
  /\ HookIdle
HooksIdle == DeepCbIdle /\ DeepEffectIdle /\ DeepEqualIdle
PureIdle == MemoIdle /\ ChunksIdle /\ HooksIdle

InitMemo == TimedIdle /\ MemoInit /\ ChunksIdle /\ HooksIdle
SpecMemo == InitMemo /\ [][MemoNext]_vars

InitChunks == TimedIdle /\ MemoIdle /\ ChunksInit /\ HooksIdle
SpecChunks == InitChunks /\ [][ChunksNext]_vars

InitDeepCallback ==
  /\ TimedIdle /\ MemoIdle /\ ChunksIdle
  /\ DeepCbInit /\ DeepEffectIdle /\ DeepEqualIdle
SpecDeepCallback == InitDeepCallback /\ [][DeepCbNext]_vars

InitDeepEffect ==
  /\ TimedIdle /\ MemoIdle /\ ChunksIdle
  /\ DeepCbIdle /\ DeepEffectInit /\ DeepEqualIdle
SpecDeepEffect == InitDeepEffect /\ [][DeepEffectNext]_vars

InitDeepEqual ==
  /\ TimedIdle /\ MemoIdle /\ ChunksIdle
  /\ DeepCbIdle /\ DeepEffectIdle /\ DeepEqualInit
SpecDeepEqual == InitDeepEqual /\ [][DeepEqualNext]_vars

InitLazy ==
  /\ HostInit /\ LazyInit /\ wrappers = {} /\ DebounceIdle /\ ThrottleIdle
  /\ HookIdle /\ PureIdle
SpecLazy == InitLazy /\ [][LazyNext]_vars

InitDebounce ==
  /\ HostInit /\ LazyIdle /\ wrappers = {"debounce"} /\ DebounceInit
  /\ ThrottleIdle /\ HookIdle /\ PureIdle
SpecDebounce == InitDebounce /\ [][DebounceNext]_vars

InitThrottle ==
  /\ HostInit /\ LazyIdle /\ wrappers = {"throttle"} /\ DebounceIdle
  /\ ThrottleInit /\ HookIdle /\ PureIdle
SpecThrottle == InitThrottle /\ [][ThrottleNext]_vars

\* a component using useDebouncedCallback: debounce is created by its first
\* render
InitDebouncedCallback ==
  /\ HostInit /\ LazyIdle /\ wrappers = {} /\ DebounceIdle /\ ThrottleIdle
  /\ HookInit /\ PureIdle
SpecDebouncedCallback == InitDebouncedCallback /\ [][HookNext]_vars

\* a program that wraps a function by debounce or by throttle
InitWrappers == InitDebounce \/ InitThrottle
WrappersNext == DebounceNext \/ ThrottleNext
SpecWrappers == InitWrappers /\ [][WrappersNext]_vars

====
